---- MODULE Spec2Model ----
(***************************************************************************)
(* deCoreML (decoreml/cli.py): the statement splitter and the field        *)
(* extractor of parse_mil_file.                                            *)
(*                                                                         *)
(* A character is its code point, 0..1114111, and a text (Python str) is   *)
(* the sequence of its characters: "= (" is <<61, 32, 40>>, written        *)
(* Text(<<"=", " ", "(">>).  A float is the pair <<n, k>> standing for the *)
(* decimal n / 10^k with k minimal (the double nearest to it).  A dict is  *)
(* the sequence of its <<key, value>> items in insertion order.            *)
(***************************************************************************)
EXTENDS Integers, Sequences, FiniteSets, TLC

----------------------------------------------------------------------------
(* Characters and str literals.                                            *)

\* the characters 32..95, in the order of their code points
Ascii32 ==
    <<" ", "!", "\"", "#", "$", "%", "&", "'", "(", ")", "*", "+",
      ",", "-", ".", "/", "0", "1", "2", "3", "4", "5", "6", "7",
      "8", "9", ":", ";", "<", "=", ">", "?", "@", "A", "B", "C",
      "D", "E", "F", "G", "H", "I", "J", "K", "L", "M", "N", "O",
      "P", "Q", "R", "S", "T", "U", "V", "W", "X", "Y", "Z", "[",
      "\\", "]", "^", "_">>

\* the characters 97..126
Ascii97 ==
    <<"a", "b", "c", "d", "e", "f", "g", "h", "i", "j", "k", "l",
      "m", "n", "o", "p", "q", "r", "s", "t", "u", "v", "w", "x",
      "y", "z", "{", "|", "}", "~">>

\* ord(c) of a character written as a one-character string
Ord(c) ==
    IF c = "\t" THEN 9
    ELSE IF c = "\n" THEN 10
    ELSE IF c = "\f" THEN 12
    ELSE IF c = "\r" THEN 13
    ELSE IF \E i \in 1..Len(Ascii32) : Ascii32[i] = c
    THEN 31 + CHOOSE i \in 1..Len(Ascii32) : Ascii32[i] = c
    ELSE 96 + CHOOSE i \in 1..Len(Ascii97) : Ascii97[i] = c

\* the str whose characters are written one by one in t
Text(t) == [i \in 1..Len(t) |-> Ord(t[i])]

LineFeed == Ord("\n")

Quote == Ord("\"")

Backslash == Ord("\\")

LeftParen == Ord("(")

FullStop == Ord(".")

Semicolon == Ord(";")

Zero == Ord("0")

----------------------------------------------------------------------------
(* Character classes.  The patterns are str patterns compiled without      *)
(* re.ASCII and strip() has no argument, so the classes are those of the   *)
(* Unicode database of the interpreter (14.0.0): each table lists the      *)
(* ranges first..last of the code points of the class, in increasing order.*)

\* c lies in one of the ranges
InRanges(c, ranges) ==
    \E i \in 1..Len(ranges) : ranges[i][1] <= c /\ c <= ranges[i][2]

\* the decimal digits (str.isdecimal): every range starts at a digit zero and
\* holds whole runs of the ten digits 0..9
DigitRanges ==
    <<<<48, 57>>, <<1632, 1641>>, <<1776, 1785>>, <<1984, 1993>>,
      <<2406, 2415>>, <<2534, 2543>>, <<2662, 2671>>, <<2790, 2799>>,
      <<2918, 2927>>, <<3046, 3055>>, <<3174, 3183>>, <<3302, 3311>>,
      <<3430, 3439>>, <<3558, 3567>>, <<3664, 3673>>, <<3792, 3801>>,
      <<3872, 3881>>, <<4160, 4169>>, <<4240, 4249>>, <<6112, 6121>>,
      <<6160, 6169>>, <<6470, 6479>>, <<6608, 6617>>, <<6784, 6793>>,
      <<6800, 6809>>, <<6992, 7001>>, <<7088, 7097>>, <<7232, 7241>>,
      <<7248, 7257>>, <<42528, 42537>>, <<43216, 43225>>, <<43264, 43273>>,
      <<43472, 43481>>, <<43504, 43513>>, <<43600, 43609>>, <<44016, 44025>>,
      <<65296, 65305>>, <<66720, 66729>>, <<68912, 68921>>, <<69734, 69743>>,
      <<69872, 69881>>, <<69942, 69951>>, <<70096, 70105>>, <<70384, 70393>>,
      <<70736, 70745>>, <<70864, 70873>>, <<71248, 71257>>, <<71360, 71369>>,
      <<71472, 71481>>, <<71904, 71913>>, <<72016, 72025>>, <<72784, 72793>>,
      <<73040, 73049>>, <<73120, 73129>>, <<92768, 92777>>, <<92864, 92873>>,
      <<93008, 93017>>, <<120782, 120831>>, <<123200, 123209>>,
      <<123632, 123641>>, <<125264, 125273>>, <<130032, 130041>>>>

\* \d
IsDigit(c) == InRanges(c, DigitRanges)

\* the digit c stands for, as float() reads it
DigitVal(c) ==
    LET r == CHOOSE i \in 1..Len(DigitRanges) :
                 DigitRanges[i][1] <= c /\ c <= DigitRanges[i][2]
    IN  (c - DigitRanges[r][1]) % 10

\* the word characters below 128: 0-9, A-Z, _, a-z
WordRangesAscii ==
    <<<<48, 57>>, <<65, 90>>, <<95, 95>>, <<97, 122>>>>

\* the word characters from 128 on: the alphanumerics (str.isalnum)
WordRangesBeyond ==
    <<<<170, 170>>, <<178, 179>>, <<181, 181>>, <<185, 186>>, <<188, 190>>,
      <<192, 214>>, <<216, 246>>, <<248, 705>>, <<710, 721>>, <<736, 740>>,
      <<748, 748>>, <<750, 750>>, <<880, 884>>, <<886, 887>>, <<890, 893>>,
      <<895, 895>>, <<902, 902>>, <<904, 906>>, <<908, 908>>, <<910, 929>>,
      <<931, 1013>>, <<1015, 1153>>, <<1162, 1327>>, <<1329, 1366>>,
      <<1369, 1369>>, <<1376, 1416>>, <<1488, 1514>>, <<1519, 1522>>,
      <<1568, 1610>>, <<1632, 1641>>, <<1646, 1647>>, <<1649, 1747>>,
      <<1749, 1749>>, <<1765, 1766>>, <<1774, 1788>>, <<1791, 1791>>,
      <<1808, 1808>>, <<1810, 1839>>, <<1869, 1957>>, <<1969, 1969>>,
      <<1984, 2026>>, <<2036, 2037>>, <<2042, 2042>>, <<2048, 2069>>,
      <<2074, 2074>>, <<2084, 2084>>, <<2088, 2088>>, <<2112, 2136>>,
      <<2144, 2154>>, <<2160, 2183>>, <<2185, 2190>>, <<2208, 2249>>,
      <<2308, 2361>>, <<2365, 2365>>, <<2384, 2384>>, <<2392, 2401>>,
      <<2406, 2415>>, <<2417, 2432>>, <<2437, 2444>>, <<2447, 2448>>,
      <<2451, 2472>>, <<2474, 2480>>, <<2482, 2482>>, <<2486, 2489>>,
      <<2493, 2493>>, <<2510, 2510>>, <<2524, 2525>>, <<2527, 2529>>,
      <<2534, 2545>>, <<2548, 2553>>, <<2556, 2556>>, <<2565, 2570>>,
      <<2575, 2576>>, <<2579, 2600>>, <<2602, 2608>>, <<2610, 2611>>,
      <<2613, 2614>>, <<2616, 2617>>, <<2649, 2652>>, <<2654, 2654>>,
      <<2662, 2671>>, <<2674, 2676>>, <<2693, 2701>>, <<2703, 2705>>,
      <<2707, 2728>>, <<2730, 2736>>, <<2738, 2739>>, <<2741, 2745>>,
      <<2749, 2749>>, <<2768, 2768>>, <<2784, 2785>>, <<2790, 2799>>,
      <<2809, 2809>>, <<2821, 2828>>, <<2831, 2832>>, <<2835, 2856>>,
      <<2858, 2864>>, <<2866, 2867>>, <<2869, 2873>>, <<2877, 2877>>,
      <<2908, 2909>>, <<2911, 2913>>, <<2918, 2927>>, <<2929, 2935>>,
      <<2947, 2947>>, <<2949, 2954>>, <<2958, 2960>>, <<2962, 2965>>,
      <<2969, 2970>>, <<2972, 2972>>, <<2974, 2975>>, <<2979, 2980>>,
      <<2984, 2986>>, <<2990, 3001>>, <<3024, 3024>>, <<3046, 3058>>,
      <<3077, 3084>>, <<3086, 3088>>, <<3090, 3112>>, <<3114, 3129>>,
      <<3133, 3133>>, <<3160, 3162>>, <<3165, 3165>>, <<3168, 3169>>,
      <<3174, 3183>>, <<3192, 3198>>, <<3200, 3200>>, <<3205, 3212>>,
      <<3214, 3216>>, <<3218, 3240>>, <<3242, 3251>>, <<3253, 3257>>,
      <<3261, 3261>>, <<3293, 3294>>, <<3296, 3297>>, <<3302, 3311>>,
      <<3313, 3314>>, <<3332, 3340>>, <<3342, 3344>>, <<3346, 3386>>,
      <<3389, 3389>>, <<3406, 3406>>, <<3412, 3414>>, <<3416, 3425>>,
      <<3430, 3448>>, <<3450, 3455>>, <<3461, 3478>>, <<3482, 3505>>,
      <<3507, 3515>>, <<3517, 3517>>, <<3520, 3526>>, <<3558, 3567>>,
      <<3585, 3632>>, <<3634, 3635>>, <<3648, 3654>>, <<3664, 3673>>,
      <<3713, 3714>>, <<3716, 3716>>, <<3718, 3722>>, <<3724, 3747>>,
      <<3749, 3749>>, <<3751, 3760>>, <<3762, 3763>>, <<3773, 3773>>,
      <<3776, 3780>>, <<3782, 3782>>, <<3792, 3801>>, <<3804, 3807>>,
      <<3840, 3840>>, <<3872, 3891>>, <<3904, 3911>>, <<3913, 3948>>,
      <<3976, 3980>>, <<4096, 4138>>, <<4159, 4169>>, <<4176, 4181>>,
      <<4186, 4189>>, <<4193, 4193>>, <<4197, 4198>>, <<4206, 4208>>,
      <<4213, 4225>>, <<4238, 4238>>, <<4240, 4249>>, <<4256, 4293>>,
      <<4295, 4295>>, <<4301, 4301>>, <<4304, 4346>>, <<4348, 4680>>,
      <<4682, 4685>>, <<4688, 4694>>, <<4696, 4696>>, <<4698, 4701>>,
      <<4704, 4744>>, <<4746, 4749>>, <<4752, 4784>>, <<4786, 4789>>,
      <<4792, 4798>>, <<4800, 4800>>, <<4802, 4805>>, <<4808, 4822>>,
      <<4824, 4880>>, <<4882, 4885>>, <<4888, 4954>>, <<4969, 4988>>,
      <<4992, 5007>>, <<5024, 5109>>, <<5112, 5117>>, <<5121, 5740>>,
      <<5743, 5759>>, <<5761, 5786>>, <<5792, 5866>>, <<5870, 5880>>,
      <<5888, 5905>>, <<5919, 5937>>, <<5952, 5969>>, <<5984, 5996>>,
      <<5998, 6000>>, <<6016, 6067>>, <<6103, 6103>>, <<6108, 6108>>,
      <<6112, 6121>>, <<6128, 6137>>, <<6160, 6169>>, <<6176, 6264>>,
      <<6272, 6276>>, <<6279, 6312>>, <<6314, 6314>>, <<6320, 6389>>,
      <<6400, 6430>>, <<6470, 6509>>, <<6512, 6516>>, <<6528, 6571>>,
      <<6576, 6601>>, <<6608, 6618>>, <<6656, 6678>>, <<6688, 6740>>,
      <<6784, 6793>>, <<6800, 6809>>, <<6823, 6823>>, <<6917, 6963>>,
      <<6981, 6988>>, <<6992, 7001>>, <<7043, 7072>>, <<7086, 7141>>,
      <<7168, 7203>>, <<7232, 7241>>, <<7245, 7293>>, <<7296, 7304>>,
      <<7312, 7354>>, <<7357, 7359>>, <<7401, 7404>>, <<7406, 7411>>,
      <<7413, 7414>>, <<7418, 7418>>, <<7424, 7615>>, <<7680, 7957>>,
      <<7960, 7965>>, <<7968, 8005>>, <<8008, 8013>>, <<8016, 8023>>,
      <<8025, 8025>>, <<8027, 8027>>, <<8029, 8029>>, <<8031, 8061>>,
      <<8064, 8116>>, <<8118, 8124>>, <<8126, 8126>>, <<8130, 8132>>,
      <<8134, 8140>>, <<8144, 8147>>, <<8150, 8155>>, <<8160, 8172>>,
      <<8178, 8180>>, <<8182, 8188>>, <<8304, 8305>>, <<8308, 8313>>,
      <<8319, 8329>>, <<8336, 8348>>, <<8450, 8450>>, <<8455, 8455>>,
      <<8458, 8467>>, <<8469, 8469>>, <<8473, 8477>>, <<8484, 8484>>,
      <<8486, 8486>>, <<8488, 8488>>, <<8490, 8493>>, <<8495, 8505>>,
      <<8508, 8511>>, <<8517, 8521>>, <<8526, 8526>>, <<8528, 8585>>,
      <<9312, 9371>>, <<9450, 9471>>, <<10102, 10131>>, <<11264, 11492>>,
      <<11499, 11502>>, <<11506, 11507>>, <<11517, 11517>>, <<11520, 11557>>,
      <<11559, 11559>>, <<11565, 11565>>, <<11568, 11623>>, <<11631, 11631>>,
      <<11648, 11670>>, <<11680, 11686>>, <<11688, 11694>>, <<11696, 11702>>,
      <<11704, 11710>>, <<11712, 11718>>, <<11720, 11726>>, <<11728, 11734>>,
      <<11736, 11742>>, <<11823, 11823>>, <<12293, 12295>>, <<12321, 12329>>,
      <<12337, 12341>>, <<12344, 12348>>, <<12353, 12438>>, <<12445, 12447>>,
      <<12449, 12538>>, <<12540, 12543>>, <<12549, 12591>>, <<12593, 12686>>,
      <<12690, 12693>>, <<12704, 12735>>, <<12784, 12799>>, <<12832, 12841>>,
      <<12872, 12879>>, <<12881, 12895>>, <<12928, 12937>>, <<12977, 12991>>,
      <<13312, 19903>>, <<19968, 42124>>, <<42192, 42237>>, <<42240, 42508>>,
      <<42512, 42539>>, <<42560, 42606>>, <<42623, 42653>>, <<42656, 42735>>,
      <<42775, 42783>>, <<42786, 42888>>, <<42891, 42954>>, <<42960, 42961>>,
      <<42963, 42963>>, <<42965, 42969>>, <<42994, 43009>>, <<43011, 43013>>,
      <<43015, 43018>>, <<43020, 43042>>, <<43056, 43061>>, <<43072, 43123>>,
      <<43138, 43187>>, <<43216, 43225>>, <<43250, 43255>>, <<43259, 43259>>,
      <<43261, 43262>>, <<43264, 43301>>, <<43312, 43334>>, <<43360, 43388>>,
      <<43396, 43442>>, <<43471, 43481>>, <<43488, 43492>>, <<43494, 43518>>,
      <<43520, 43560>>, <<43584, 43586>>, <<43588, 43595>>, <<43600, 43609>>,
      <<43616, 43638>>, <<43642, 43642>>, <<43646, 43695>>, <<43697, 43697>>,
      <<43701, 43702>>, <<43705, 43709>>, <<43712, 43712>>, <<43714, 43714>>,
      <<43739, 43741>>, <<43744, 43754>>, <<43762, 43764>>, <<43777, 43782>>,
      <<43785, 43790>>, <<43793, 43798>>, <<43808, 43814>>, <<43816, 43822>>,
      <<43824, 43866>>, <<43868, 43881>>, <<43888, 44002>>, <<44016, 44025>>,
      <<44032, 55203>>, <<55216, 55238>>, <<55243, 55291>>, <<63744, 64109>>,
      <<64112, 64217>>, <<64256, 64262>>, <<64275, 64279>>, <<64285, 64285>>,
      <<64287, 64296>>, <<64298, 64310>>, <<64312, 64316>>, <<64318, 64318>>,
      <<64320, 64321>>, <<64323, 64324>>, <<64326, 64433>>, <<64467, 64829>>,
      <<64848, 64911>>, <<64914, 64967>>, <<65008, 65019>>, <<65136, 65140>>,
      <<65142, 65276>>, <<65296, 65305>>, <<65313, 65338>>, <<65345, 65370>>,
      <<65382, 65470>>, <<65474, 65479>>, <<65482, 65487>>, <<65490, 65495>>,
      <<65498, 65500>>, <<65536, 65547>>, <<65549, 65574>>, <<65576, 65594>>,
      <<65596, 65597>>, <<65599, 65613>>, <<65616, 65629>>, <<65664, 65786>>,
      <<65799, 65843>>, <<65856, 65912>>, <<65930, 65931>>, <<66176, 66204>>,
      <<66208, 66256>>, <<66273, 66299>>, <<66304, 66339>>, <<66349, 66378>>,
      <<66384, 66421>>, <<66432, 66461>>, <<66464, 66499>>, <<66504, 66511>>,
      <<66513, 66517>>, <<66560, 66717>>, <<66720, 66729>>, <<66736, 66771>>,
      <<66776, 66811>>, <<66816, 66855>>, <<66864, 66915>>, <<66928, 66938>>,
      <<66940, 66954>>, <<66956, 66962>>, <<66964, 66965>>, <<66967, 66977>>,
      <<66979, 66993>>, <<66995, 67001>>, <<67003, 67004>>, <<67072, 67382>>,
      <<67392, 67413>>, <<67424, 67431>>, <<67456, 67461>>, <<67463, 67504>>,
      <<67506, 67514>>, <<67584, 67589>>, <<67592, 67592>>, <<67594, 67637>>,
      <<67639, 67640>>, <<67644, 67644>>, <<67647, 67669>>, <<67672, 67702>>,
      <<67705, 67742>>, <<67751, 67759>>, <<67808, 67826>>, <<67828, 67829>>,
      <<67835, 67867>>, <<67872, 67897>>, <<67968, 68023>>, <<68028, 68047>>,
      <<68050, 68096>>, <<68112, 68115>>, <<68117, 68119>>, <<68121, 68149>>,
      <<68160, 68168>>, <<68192, 68222>>, <<68224, 68255>>, <<68288, 68295>>,
      <<68297, 68324>>, <<68331, 68335>>, <<68352, 68405>>, <<68416, 68437>>,
      <<68440, 68466>>, <<68472, 68497>>, <<68521, 68527>>, <<68608, 68680>>,
      <<68736, 68786>>, <<68800, 68850>>, <<68858, 68899>>, <<68912, 68921>>,
      <<69216, 69246>>, <<69248, 69289>>, <<69296, 69297>>, <<69376, 69415>>,
      <<69424, 69445>>, <<69457, 69460>>, <<69488, 69505>>, <<69552, 69579>>,
      <<69600, 69622>>, <<69635, 69687>>, <<69714, 69743>>, <<69745, 69746>>,
      <<69749, 69749>>, <<69763, 69807>>, <<69840, 69864>>, <<69872, 69881>>,
      <<69891, 69926>>, <<69942, 69951>>, <<69956, 69956>>, <<69959, 69959>>,
      <<69968, 70002>>, <<70006, 70006>>, <<70019, 70066>>, <<70081, 70084>>,
      <<70096, 70106>>, <<70108, 70108>>, <<70113, 70132>>, <<70144, 70161>>,
      <<70163, 70187>>, <<70272, 70278>>, <<70280, 70280>>, <<70282, 70285>>,
      <<70287, 70301>>, <<70303, 70312>>, <<70320, 70366>>, <<70384, 70393>>,
      <<70405, 70412>>, <<70415, 70416>>, <<70419, 70440>>, <<70442, 70448>>,
      <<70450, 70451>>, <<70453, 70457>>, <<70461, 70461>>, <<70480, 70480>>,
      <<70493, 70497>>, <<70656, 70708>>, <<70727, 70730>>, <<70736, 70745>>,
      <<70751, 70753>>, <<70784, 70831>>, <<70852, 70853>>, <<70855, 70855>>,
      <<70864, 70873>>, <<71040, 71086>>, <<71128, 71131>>, <<71168, 71215>>,
      <<71236, 71236>>, <<71248, 71257>>, <<71296, 71338>>, <<71352, 71352>>,
      <<71360, 71369>>, <<71424, 71450>>, <<71472, 71483>>, <<71488, 71494>>,
      <<71680, 71723>>, <<71840, 71922>>, <<71935, 71942>>, <<71945, 71945>>,
      <<71948, 71955>>, <<71957, 71958>>, <<71960, 71983>>, <<71999, 71999>>,
      <<72001, 72001>>, <<72016, 72025>>, <<72096, 72103>>, <<72106, 72144>>,
      <<72161, 72161>>, <<72163, 72163>>, <<72192, 72192>>, <<72203, 72242>>,
      <<72250, 72250>>, <<72272, 72272>>, <<72284, 72329>>, <<72349, 72349>>,
      <<72368, 72440>>, <<72704, 72712>>, <<72714, 72750>>, <<72768, 72768>>,
      <<72784, 72812>>, <<72818, 72847>>, <<72960, 72966>>, <<72968, 72969>>,
      <<72971, 73008>>, <<73030, 73030>>, <<73040, 73049>>, <<73056, 73061>>,
      <<73063, 73064>>, <<73066, 73097>>, <<73112, 73112>>, <<73120, 73129>>,
      <<73440, 73458>>, <<73648, 73648>>, <<73664, 73684>>, <<73728, 74649>>,
      <<74752, 74862>>, <<74880, 75075>>, <<77712, 77808>>, <<77824, 78894>>,
      <<82944, 83526>>, <<92160, 92728>>, <<92736, 92766>>, <<92768, 92777>>,
      <<92784, 92862>>, <<92864, 92873>>, <<92880, 92909>>, <<92928, 92975>>,
      <<92992, 92995>>, <<93008, 93017>>, <<93019, 93025>>, <<93027, 93047>>,
      <<93053, 93071>>, <<93760, 93846>>, <<93952, 94026>>, <<94032, 94032>>,
      <<94099, 94111>>, <<94176, 94177>>, <<94179, 94179>>, <<94208, 100343>>,
      <<100352, 101589>>, <<101632, 101640>>, <<110576, 110579>>,
      <<110581, 110587>>, <<110589, 110590>>, <<110592, 110882>>,
      <<110928, 110930>>, <<110948, 110951>>, <<110960, 111355>>,
      <<113664, 113770>>, <<113776, 113788>>, <<113792, 113800>>,
      <<113808, 113817>>, <<119520, 119539>>, <<119648, 119672>>,
      <<119808, 119892>>, <<119894, 119964>>, <<119966, 119967>>,
      <<119970, 119970>>, <<119973, 119974>>, <<119977, 119980>>,
      <<119982, 119993>>, <<119995, 119995>>, <<119997, 120003>>,
      <<120005, 120069>>, <<120071, 120074>>, <<120077, 120084>>,
      <<120086, 120092>>, <<120094, 120121>>, <<120123, 120126>>,
      <<120128, 120132>>, <<120134, 120134>>, <<120138, 120144>>,
      <<120146, 120485>>, <<120488, 120512>>, <<120514, 120538>>,
      <<120540, 120570>>, <<120572, 120596>>, <<120598, 120628>>,
      <<120630, 120654>>, <<120656, 120686>>, <<120688, 120712>>,
      <<120714, 120744>>, <<120746, 120770>>, <<120772, 120779>>,
      <<120782, 120831>>, <<122624, 122654>>, <<123136, 123180>>,
      <<123191, 123197>>, <<123200, 123209>>, <<123214, 123214>>,
      <<123536, 123565>>, <<123584, 123627>>, <<123632, 123641>>,
      <<124896, 124902>>, <<124904, 124907>>, <<124909, 124910>>,
      <<124912, 124926>>, <<124928, 125124>>, <<125127, 125135>>,
      <<125184, 125251>>, <<125259, 125259>>, <<125264, 125273>>,
      <<126065, 126123>>, <<126125, 126127>>, <<126129, 126132>>,
      <<126209, 126253>>, <<126255, 126269>>, <<126464, 126467>>,
      <<126469, 126495>>, <<126497, 126498>>, <<126500, 126500>>,
      <<126503, 126503>>, <<126505, 126514>>, <<126516, 126519>>,
      <<126521, 126521>>, <<126523, 126523>>, <<126530, 126530>>,
      <<126535, 126535>>, <<126537, 126537>>, <<126539, 126539>>,
      <<126541, 126543>>, <<126545, 126546>>, <<126548, 126548>>,
      <<126551, 126551>>, <<126553, 126553>>, <<126555, 126555>>,
      <<126557, 126557>>, <<126559, 126559>>, <<126561, 126562>>,
      <<126564, 126564>>, <<126567, 126570>>, <<126572, 126578>>,
      <<126580, 126583>>, <<126585, 126588>>, <<126590, 126590>>,
      <<126592, 126601>>, <<126603, 126619>>, <<126625, 126627>>,
      <<126629, 126633>>, <<126635, 126651>>, <<127232, 127244>>,
      <<130032, 130041>>, <<131072, 173791>>, <<173824, 177976>>,
      <<177984, 178205>>, <<178208, 183969>>, <<183984, 191456>>,
      <<194560, 195101>>, <<196608, 201546>>>>

\* \w
IsWord(c) ==
    IF c < 128 THEN InRanges(c, WordRangesAscii)
    ELSE InRanges(c, WordRangesBeyond)

\* .  (no DOTALL flag: every character but the line feed)
IsDot(c) == c # LineFeed

\* the white space str.strip() removes (str.isspace)
SpaceRanges ==
    <<<<9, 13>>, <<28, 32>>, <<133, 133>>, <<160, 160>>, <<5760, 5760>>,
      <<8192, 8202>>, <<8232, 8233>>, <<8239, 8239>>, <<8287, 8287>>,
      <<12288, 12288>>>>

IsSpace(c) == InRanges(c, SpaceRanges)

----------------------------------------------------------------------------
(* The literal parts of the patterns and the sentinels.                    *)

PatEstimatedRuntime ==
    Text(<<"E", "s", "t", "i", "m", "a", "t", "e", "d", "R", "u", "n", "t", "i",
      "m", "e", " ", "=", " ", "d", "i", "c", "t", "<", "s", "t", "r", "i",
      "n", "g", ",", " ", "f", "p", "6", "4", ">", "(", "{", "{">>)

PatValidationMessage ==
    Text(<<"V", "a", "l", "i", "d", "a", "t", "i", "o", "n", "M", "e", "s", "s",
      "a", "g", "e", " ", "=", " ", "d", "i", "c", "t", "<", "s", "t", "r",
      "i", "n", "g", ",", " ", "s", "t", "r", "i", "n", "g", ">", "(", "{",
      "{">>)

PatSelectedBackend ==
    Text(<<"S", "e", "l", "e", "c", "t", "e", "d", "B", "a", "c", "k", "e", "n",
      "d", " ", "=", " ", "s", "t", "r", "i", "n", "g", "(", "\"">>)

PatName ==
    Text(<<"n", "a", "m", "e", " ", "=", " ", "s", "t", "r", "i", "n", "g", "(",
      "\"">>)

PatCloseDict == Text(<<"}", "}", ")">>)

PatCloseString == Text(<<"\"", ")">>)

PatOperationOpen == Text(<<"=", " ">>)

PatRuntimeSep == Text(<<"\"", ",", " ">>)

PatMessageSep == Text(<<"\"", ",", " ", "\"">>)

NotFound == Text(<<"N", "o", "t", " ", "f", "o", "u", "n", "d">>)

NA == Text(<<"N", "/", "A">>)

TensorPrefix == Text(<<"t", "e", "n", "s", "o", "r">>)

----------------------------------------------------------------------------
(* Text primitives.                                                        *)

\* s[a..b-1], the Python slice s[a-1:b-1]
Slice(s, a, b) == SubSeq(s, a, b - 1)

\* the literal lit stands in s at position i
MatchAt(s, i, lit) ==
    /\ i >= 1
    /\ i + Len(lit) - 1 <= Len(s)
    /\ \A j \in 1..Len(lit) : s[i + j - 1] = lit[j]

Min(S) == CHOOSE x \in S : \A y \in S : x <= y

Max(S) == CHOOSE x \in S : \A y \in S : x >= y

RECURSIVE RunLen(_, _, _)
\* the length of the longest run of digits (word = FALSE) or of word
\* characters (word = TRUE) of s that starts at position i: a greedy \d+, \w+
RunLen(s, i, word) ==
    IF i > Len(s) THEN 0
    ELSE IF (IF word THEN IsWord(s[i]) ELSE IsDigit(s[i]))
         THEN 1 + RunLen(s, i + 1, word)
         ELSE 0

NoMatch == [found |-> FALSE, group |-> <<>>]

----------------------------------------------------------------------------
(* format_validation_message                                               *)

\* message.replace('\\"', '"'): every backslash that stands right before a
\* quote is dropped (two occurrences of \" never overlap)
ReplaceEscapedQuote(m) ==
    LET Kept == {j \in 1..Len(m) : ~MatchAt(m, j, Text(<<"\\", "\"">>))}
        Nth(i) == CHOOSE j \in Kept : Cardinality({x \in Kept : x <= j}) = i
    IN  [i \in 1..Cardinality(Kept) |-> m[Nth(i)]]

\* the message with its line feed but the escaped quotes left as they are
format_validation_message_escaped(message) ==
    IF message = <<>> THEN message ELSE message \o <<LineFeed>>

format_validation_message(message) ==
    IF message = <<>> THEN message
    ELSE ReplaceEscapedQuote(message) \o <<LineFeed>>

----------------------------------------------------------------------------
(* The searches of extract_single.                                         *)

\* the rightmost text "= <word>(" instead of the leftmost
SearchOperationLast(s) ==
    LET Hit(p) == /\ MatchAt(s, p, PatOperationOpen)
                  /\ RunLen(s, p + 2, TRUE) >= 1
                  /\ p + 2 + RunLen(s, p + 2, TRUE) <= Len(s)
                  /\ s[p + 2 + RunLen(s, p + 2, TRUE)] = LeftParen
        Starts == {p \in 1..Len(s) : Hit(p)}
    IN  IF Starts = {} THEN NoMatch
        ELSE LET p == Max(Starts)
             IN  [found |-> TRUE,
                  group |-> Slice(s, p + 2, p + 2 + RunLen(s, p + 2, TRUE))]

\* re.search(r"= (\w+)\(", s): the leftmost position where "= " is followed
\* by a run of word characters that ends right before "(".  The run is the
\* longest one: a shorter one is followed by a word character, not by "(".
SearchOperation(s) ==
    LET Hit(p) == /\ MatchAt(s, p, PatOperationOpen)
                  /\ RunLen(s, p + 2, TRUE) >= 1
                  /\ p + 2 + RunLen(s, p + 2, TRUE) <= Len(s)
                  /\ s[p + 2 + RunLen(s, p + 2, TRUE)] = LeftParen
        Starts == {p \in 1..Len(s) : Hit(p)}
    IN  IF Starts = {} THEN NoMatch
        ELSE LET p == Min(Starts)
             IN  [found |-> TRUE,
                  group |-> Slice(s, p + 2, p + 2 + RunLen(s, p + 2, TRUE))]

\* the positions e at which a lazy (.+?) that starts at g may stop before the
\* literal close: at least one character, none of them a line feed
LazyEnds(s, g, close) ==
    {e \in (g + 1)..Len(s) :
        /\ MatchAt(s, e, close)
        /\ \A j \in g..(e - 1) : IsDot(s[j])}

\* re.search(open + r"(.+?)" + close, s) for literal open and close: the
\* leftmost position of open from which the match succeeds, and the shortest
\* group from there
SearchLazy(s, open, close) ==
    LET Starts == {p \in 1..Len(s) :
                     /\ MatchAt(s, p, open)
                     /\ LazyEnds(s, p + Len(open), close) # {}}
    IN  IF Starts = {} THEN NoMatch
        ELSE LET g == Min(Starts) + Len(open)
             IN  [found |-> TRUE,
                  group |-> Slice(s, g, Min(LazyEnds(s, g, close)))]

\* (\d+\.\d) : a single digit after the point
NumberEndOneDecimal(s, a) ==
    LET d1 == RunLen(s, a, FALSE)
    IN  IF /\ d1 >= 1
           /\ a + d1 <= Len(s)
           /\ s[a + d1] = FullStop
           /\ RunLen(s, a + d1 + 1, FALSE) >= 1
        THEN a + d1 + 2
        ELSE 0

\* (\d+\.\d+) at position a: the position after the match, 0 if none
NumberEnd(s, a) ==
    LET d1 == RunLen(s, a, FALSE)
        d2 == RunLen(s, a + d1 + 1, FALSE)
    IN  IF /\ d1 >= 1
           /\ a + d1 <= Len(s)
           /\ s[a + d1] = FullStop
           /\ d2 >= 1
        THEN a + d1 + 1 + d2
        ELSE 0

\* r'"(.+?)", (\d+\.\d+)' anchored at position p
MatchRuntimePairAt(s, p) ==
    LET Ends == {e \in LazyEnds(s, p + 1, PatRuntimeSep) :
                    NumberEnd(s, e + 3) # 0}
    IN  IF p > Len(s) \/ s[p] # Quote \/ Ends = {}
        THEN [found |-> FALSE, pair |-> <<>>, next |-> p + 1]
        ELSE LET e == Min(Ends)
             IN  [found |-> TRUE,
                  pair |-> <<Slice(s, p + 1, e),
                             Slice(s, e + 3, NumberEnd(s, e + 3))>>,
                  next |-> NumberEnd(s, e + 3)]

\* the positions q of the closing quote of a greedy (.+)" that starts at a
GreedyQuotes(s, a) ==
    {q \in (a + 1)..Len(s) :
        /\ s[q] = Quote
        /\ \A j \in a..(q - 1) : IsDot(s[j])}

\* r'"(.+?)", "(.+)"' anchored at position p
MatchMessagePairAt(s, p) ==
    LET Ends == {e \in LazyEnds(s, p + 1, PatMessageSep) :
                    GreedyQuotes(s, e + 4) # {}}
    IN  IF p > Len(s) \/ s[p] # Quote \/ Ends = {}
        THEN [found |-> FALSE, pair |-> <<>>, next |-> p + 1]
        ELSE LET e == Min(Ends)
                 q == Max(GreedyQuotes(s, e + 4))
             IN  [found |-> TRUE,
                  pair |-> <<Slice(s, p + 1, e), Slice(s, e + 4, q)>>,
                  next |-> q + 1]

RECURSIVE FindallRuntimePairs(_, _)
\* re.findall(r'"(.+?)", (\d+\.\d+)', s), scanning from position p: the
\* leftmost match at or after p, then the scan resumes after that match
FindallRuntimePairs(s, p) ==
    LET Starts == {q \in p..Len(s) : MatchRuntimePairAt(s, q).found}
    IN  IF Starts = {} THEN <<>>
        ELSE LET m == MatchRuntimePairAt(s, Min(Starts))
             IN  <<m.pair>> \o FindallRuntimePairs(s, m.next)

RECURSIVE FindallMessagePairs(_, _)
\* re.findall(r'"(.+?)", "(.+)"', s), scanning from position p
FindallMessagePairs(s, p) ==
    LET Starts == {q \in p..Len(s) : MatchMessagePairAt(s, q).found}
    IN  IF Starts = {} THEN <<>>
        ELSE LET m == MatchMessagePairAt(s, Min(Starts))
             IN  <<m.pair>> \o FindallMessagePairs(s, m.next)

----------------------------------------------------------------------------
(* float() and dict.                                                       *)

RECURSIVE ToInt(_)
ToInt(ds) ==
    IF Len(ds) = 0 THEN 0
    ELSE 10 * ToInt(Slice(ds, 1, Len(ds))) + DigitVal(ds[Len(ds)])

RECURSIVE Normalize(_, _)
\* the same number with the fewest decimals
Normalize(n, k) ==
    IF k > 0 /\ n % 10 = 0 THEN Normalize(n \div 10, k - 1) ELSE <<n, k>>

\* float(text) of a text matched by \d+\.\d+
ParseFloat(text) ==
    LET dot == RunLen(text, 1, FALSE) + 1
    IN  Normalize(ToInt(Slice(text, 1, dot)
                        \o Slice(text, dot + 1, Len(text) + 1)),
                  Len(text) - dot)

DictKeys(d) == {d[j][1] : j \in 1..Len(d)}

\* d[key] = value
DictSet(d, key, value) ==
    IF key \in DictKeys(d)
    THEN [j \in 1..Len(d) |-> IF d[j][1] = key THEN <<key, value>> ELSE d[j]]
    ELSE Append(d, <<key, value>>)

\* d.get(key, default)
DictGet(d, key, default) ==
    IF key \in DictKeys(d)
    THEN d[CHOOSE j \in 1..Len(d) : d[j][1] = key][2]
    ELSE default

RECURSIVE RuntimesDict(_)
\* {backend: float(runtime) for backend, runtime in runtimes_pairs}
RuntimesDict(pairs) ==
    IF Len(pairs) = 0 THEN <<>>
    ELSE LET last == pairs[Len(pairs)]
         IN  DictSet(RuntimesDict(Slice(pairs, 1, Len(pairs))),
                     last[1], ParseFloat(last[2]))

RECURSIVE MessagesDict(_)
\* {backend: format_validation_message(message) for backend, message in ...}
MessagesDict(pairs) ==
    IF Len(pairs) = 0 THEN <<>>
    ELSE LET last == pairs[Len(pairs)]
         IN  DictSet(MessagesDict(Slice(pairs, 1, Len(pairs))),
                     last[1], format_validation_message(last[2]))

----------------------------------------------------------------------------
(* extract_single                                                          *)

\* selected_backend guarded by the match of the name pattern
extract_single_shared_guard(tensor_operation) ==
    LET operation_match == SearchOperation(tensor_operation)
        runtimes_match ==
            SearchLazy(tensor_operation, PatEstimatedRuntime, PatCloseDict)
        selected_backend_match ==
            SearchLazy(tensor_operation, PatSelectedBackend, PatCloseString)
        name_match == SearchLazy(tensor_operation, PatName, PatCloseString)
        validation_message_match ==
            SearchLazy(tensor_operation, PatValidationMessage, PatCloseDict)
    IN  [operation |->
            IF operation_match.found THEN operation_match.group
            ELSE NotFound,
         runtimes |->
            IF runtimes_match.found
            THEN RuntimesDict(FindallRuntimePairs(runtimes_match.group, 1))
            ELSE <<>>,
         selected_backend |->
            IF name_match.found
            THEN selected_backend_match.group
            ELSE NotFound,
         name |-> IF name_match.found THEN name_match.group ELSE NotFound,
         validation_messages |->
            IF validation_message_match.found
            THEN MessagesDict(
                    FindallMessagePairs(validation_message_match.group, 1))
            ELSE <<>>]

extract_single(tensor_operation) ==
    LET operation_match == SearchOperation(tensor_operation)
        runtimes_match ==
            SearchLazy(tensor_operation, PatEstimatedRuntime, PatCloseDict)
        selected_backend_match ==
            SearchLazy(tensor_operation, PatSelectedBackend, PatCloseString)
        name_match == SearchLazy(tensor_operation, PatName, PatCloseString)
        validation_message_match ==
            SearchLazy(tensor_operation, PatValidationMessage, PatCloseDict)
    IN  [operation |->
            IF operation_match.found THEN operation_match.group
            ELSE NotFound,
         runtimes |->
            IF runtimes_match.found
            THEN RuntimesDict(FindallRuntimePairs(runtimes_match.group, 1))
            ELSE <<>>,
         selected_backend |->
            IF selected_backend_match.found
            THEN selected_backend_match.group
            ELSE NotFound,
         name |-> IF name_match.found THEN name_match.group ELSE NotFound,
         validation_messages |->
            IF validation_message_match.found
            THEN MessagesDict(
                    FindallMessagePairs(validation_message_match.group, 1))
            ELSE <<>>]

----------------------------------------------------------------------------
(* round_runtime, str() and format_backend: the cells of a table row.      *)

RECURSIVE Pow10(_)
Pow10(k) == IF k = 0 THEN 1 ELSE 10 * Pow10(k - 1)

RECURSIVE BitLen(_)
BitLen(i) == IF i = 0 THEN 0 ELSE 1 + BitLen(i \div 2)

RECURSIVE Pow2(_)
Pow2(c) == IF c = 0 THEN 1 ELSE 2 * Pow2(c - 1)

RECURSIVE LeadingZeros(_, _)
\* the number of zero bits that open the binary expansion of r / d, 0 < r < d
LeadingZeros(r, d) == IF 2 * r >= d THEN 0 ELSE 1 + LeadingZeros(2 * r, d)

RECURSIVE ShiftMod(_, _, _)
\* (r * 2^t) % m, a few bits at a time so that no product leaves 32 bits
ShiftMod(r, t, m) ==
    LET c == BitLen(1073741824 \div m) - 1
        step == IF t < c THEN t ELSE c
    IN  IF t = 0 THEN r % m
        ELSE ShiftMod((r * Pow2(step)) % m, t - step, m)

\* the sign of float("n / 10^k") - n / 10^k: the 53 bits of the significand
\* are the integer part and the first t bits of the fraction r / d; what is
\* left of the fraction decides, under round-half-to-even
FloatError(n, k) ==
    LET d == Pow10(k)
        whole == n \div d
        r == n % d
        t == IF whole = 0 THEN LeadingZeros(r, d) + 53
             ELSE 53 - BitLen(whole)
        x == ShiftMod(r, t, 2 * d)
        last == x \div d
        rest == x % d
    IN  IF r = 0 \/ rest = 0 THEN 0
        ELSE IF 2 * rest > d THEN 1
        ELSE IF 2 * rest < d THEN -1
        ELSE IF last = 1 THEN 1 ELSE -1

\* the four first decimals, the rest cut off
Truncate4(x) ==
    IF x[2] <= 4 THEN x ELSE Normalize(x[1] \div Pow10(x[2] - 4), 4)

\* round(x, 4): the decimal with four places nearest to the double itself
\* (correctly rounded; an exact tie goes to the even neighbour)
Round4(x) ==
    LET n == x[1]
        k == x[2]
        unit == Pow10(k - 4)
        q == n \div unit
        r == n % unit
        err == FloatError(n, k)
        up == \/ 2 * r > unit
              \/ /\ 2 * r = unit
                 /\ (err = 1 \/ (err = 0 /\ q % 2 = 1))
    IN  IF k <= 4 THEN x
        ELSE Normalize(IF up THEN q + 1 ELSE q, 4)

round_runtime(runtime) == IF runtime # NA THEN Round4(runtime) ELSE runtime

RECURSIVE IntStr(_)
IntStr(i) ==
    IF i < 10 THEN <<Zero + i>>
    ELSE IntStr(i \div 10) \o <<Zero + (i % 10)>>

RECURSIVE ZeroPad(_, _)
ZeroPad(ds, k) == IF Len(ds) >= k THEN ds ELSE ZeroPad(<<Zero>> \o ds, k)

\* str(x) of a float below 1e16 that is zero or at least 1e-4 (the shortest
\* text that reads back as x, never in exponent form), and of a str
Str(x) ==
    IF x = NA THEN x
    ELSE LET d == Pow10(x[2])
         IN  IntStr(x[1] \div d) \o <<FullStop>>
             \o (IF x[2] = 0 THEN <<Zero>>
                 ELSE ZeroPad(IntStr(x[1] % d), x[2]))

KeyClassicCpu == Text(<<"c", "l", "a", "s", "s", "i", "c", "_", "c", "p", "u">>)

KeyBnns == Text(<<"b", "n", "n", "s">>)

KeyMpsGraph == Text(<<"m", "p", "s", "_", "g", "r", "a", "p", "h">>)

KeyAne == Text(<<"a", "n", "e">>)

Markup(colour, backend) ==
    Text(<<"[">>) \o colour \o Text(<<"]">>) \o backend
    \o Text(<<"[", "/">>) \o colour \o Text(<<"]">>)

format_backend(backend) ==
    IF backend = KeyClassicCpu \/ backend = KeyBnns
    THEN Markup(Text(<<"b", "l", "u", "e">>), backend)
    ELSE IF backend = KeyMpsGraph
    THEN Markup(Text(<<"g", "r", "e", "e", "n">>), backend)
    ELSE IF backend = KeyAne
    THEN Markup(Text(<<"p", "u", "r", "p", "l", "e">>), backend)
    ELSE backend

RECURSIVE JoinMessages(_)
\* "\n".join(f"{backend}: {message}" for backend, message in d.items())
JoinMessages(d) ==
    IF Len(d) = 0 THEN <<>>
    ELSE IF Len(d) = 1 THEN d[1][1] \o Text(<<":", " ">>) \o d[1][2]
    ELSE JoinMessages(Slice(d, 1, Len(d))) \o <<LineFeed>>
         \o d[Len(d)][1] \o Text(<<":", " ">>) \o d[Len(d)][2]

\* the cells handed to table.add_row for one extracted record
TableRow(r) ==
    [operation |-> r.operation,
     cpu_runtime |-> Str(round_runtime(DictGet(r.runtimes, KeyClassicCpu, NA))),
     gpu_runtime |-> Str(round_runtime(DictGet(r.runtimes, KeyMpsGraph, NA))),
     ane_runtime |-> Str(round_runtime(DictGet(r.runtimes, KeyAne, NA))),
     selected_backend |-> format_backend(r.selected_backend),
     name |-> r.name,
     validation_messages_str |-> JoinMessages(r.validation_messages)]

----------------------------------------------------------------------------
(* The statement splitter of parse_mil_file.                               *)

RECURSIVE Split(_)
\* content.split(";")
Split(s) ==
    LET Semis == {p \in 1..Len(s) : s[p] = Semicolon}
    IN  IF Semis = {} THEN <<s>>
        ELSE <<Slice(s, 1, Min(Semis))>>
             \o Split(Slice(s, Min(Semis) + 1, Len(s) + 1))

\* line.strip()
Strip(s) ==
    LET Inked == {p \in 1..Len(s) : ~IsSpace(s[p])}
    IN  IF Inked = {} THEN <<>> ELSE Slice(s, Min(Inked), Max(Inked) + 1)

\* line.startswith(prefix)
StartsWith(s, prefix) == MatchAt(s, 1, prefix)

RECURSIVE StripAll(_)
StripAll(lines) ==
    IF Len(lines) = 0 THEN <<>>
    ELSE <<Strip(lines[1])>> \o StripAll(Tail(lines))

IsTensor(line) == StartsWith(line, TensorPrefix)

\* the prefix tested on the line as split, before it is stripped
TensorOperationsUnstripped(s) == StripAll(SelectSeq(Split(s), IsTensor))

\* [line.strip() for line in content.split(";")
\*  if line.strip().startswith("tensor")]
TensorOperations(s) == SelectSeq(StripAll(Split(s)), IsTensor)

----------------------------------------------------------------------------
(* console.print(Panel(table)): every cell of every row is a str, which    *)
(* the console renders as markup (rich 13.4, markup.render).  A closing    *)
(* tag that closes nothing raises MarkupError out of parse_mil_file.       *)

LeftBracket == Ord("[")

RightBracket == Ord("]")

Solidus == Ord("/")

EqualsSign == Ord("=")

CommercialAt == Ord("@")

NumberSign == Ord("#")

LowerA == Ord("a")

LowerZ == Ord("z")

\* [a-z#/@], the first character of a tag
IsTagStart(c) ==
    \/ LowerA <= c /\ c <= LowerZ
    \/ c \in {NumberSign, Solidus, CommercialAt}

\* \[([a-z#/@][^[]*?)] at the "[" of position b: the position of the "]"
\* that ends the tag, the first one after b + 1 if no "[" precedes it; 0 if
\* the pattern does not match at b
TagEnd(markup, b) ==
    LET Stops == {j \in (b + 2)..Len(markup) :
                     markup[j] \in {LeftBracket, RightBracket}}
    IN  IF /\ b + 1 <= Len(markup)
           /\ markup[b] = LeftBracket
           /\ IsTagStart(markup[b + 1])
           /\ Stops # {}
           /\ markup[Min(Stops)] = RightBracket
        THEN Min(Stops)
        ELSE 0

\* (\\*): the number of backslashes that stand right before position b, none
\* of them before position
Escapes(markup, position, b) ==
    b - 1 - Max({j \in (position - 1)..(b - 1) :
                    j = position - 1 \/ markup[j] # Backslash})

\* tag_text.partition("="): the name, and the parameters as <<text>>, or <<>>
\* for None when the tag has no "="
ParseTag(tag_text) ==
    LET Eq == {j \in 1..Len(tag_text) : tag_text[j] = EqualsSign}
    IN  IF Eq = {}
        THEN [name |-> tag_text, parameters |-> <<>>]
        ELSE [name |-> Slice(tag_text, 1, Min(Eq)),
              parameters |->
                 <<Slice(tag_text, Min(Eq) + 1, Len(tag_text) + 1)>>]

\* The popped tag is a meta tag "@..." whose parameters are handed to
\* ast.literal_eval: they are not empty and, stripped, are not a bare handler
\* name [\w.]* (for which "()" is evaluated).  Whether literal_eval accepts
\* them is not modelled.
EvaluatesParameters(open_tag) ==
    /\ open_tag.name[1] = CommercialAt
    /\ open_tag.parameters # <<>>
    /\ open_tag.parameters[1] # <<>>
    /\ \E j \in 1..Len(Strip(open_tag.parameters[1])) :
          LET c == Strip(open_tag.parameters[1])[j]
          IN  ~IsWord(c) /\ c # FullStop

RECURSIVE RenderTags(_, _, _)
\* The loop of markup.render over the tags found from position on, with the
\* open tags of style_stack: "Text" when the markup renders, "MarkupError"
\* when a closing tag finds the stack empty, "either" when the outcome hangs
\* on what is not modelled.  A closing tag [/name] pops the topmost open tag
\* of the same normalized name; Style.normalize is not modelled, so the pop
\* is known only when the stack is empty (MarkupError) or when the name is,
\* as written, the name of the topmost open tag.
RenderTags(markup, position, style_stack) ==
    LET Starts == {b \in position..Len(markup) : TagEnd(markup, b) # 0}
        b == Min(Starts)
        end == TagEnd(markup, b)
        tag == ParseTag(Slice(markup, b + 1, end))
        style_name == Strip(Tail(tag.name))
        open_tag == style_stack[Len(style_stack)]
        popped == RenderTags(markup, end + 1,
                             SubSeq(style_stack, 1, Len(style_stack) - 1))
    IN  IF Starts = {} THEN "Text"
        ELSE IF Escapes(markup, position, b) % 2 = 1
        THEN RenderTags(markup, end + 1, style_stack)
        ELSE IF tag.name[1] # Solidus
        THEN RenderTags(markup, end + 1, Append(style_stack, tag))
        ELSE IF style_stack = <<>> THEN "MarkupError"
        ELSE IF style_name # <<>> /\ open_tag.name # style_name THEN "either"
        ELSE IF EvaluatesParameters(open_tag) /\ popped = "Text" THEN "either"
        ELSE popped

\* markup.render(markup)
render(markup) == RenderTags(markup, 1, <<>>)

\* the cells of a row
Cells(row) ==
    {row.operation, row.cpu_runtime, row.gpu_runtime, row.ane_runtime,
     row.selected_backend, row.name, row.validation_messages_str}

\* console.print of the table of the rows rs: where parse_mil_file may stand
\* afterwards, "raised" when the rendering of a cell raised MarkupError
PrintOutcomes(rs) ==
    LET Results ==
            {render(cell) : cell \in UNION {Cells(rs[j]) : j \in 1..Len(rs)}}
    IN  IF "MarkupError" \in Results THEN {"raised"}
        ELSE IF "either" \in Results THEN {"done", "raised"}
        ELSE {"done"}

----------------------------------------------------------------------------
(* Documents.  The texts parse_mil_file is run on are built from the        *)
(* annotations of the analytics.mil format.                                *)

NameAnnotation(v) == PatName \o v \o PatCloseString

SelectedBackendAnnotation(v) == PatSelectedBackend \o v \o PatCloseString

\* pairs is the text between ({{ and }})
EstimatedRuntimeAnnotation(pairs) ==
    PatEstimatedRuntime \o pairs \o PatCloseDict

ValidationMessageAnnotation(pairs) ==
    PatValidationMessage \o pairs \o PatCloseDict

Quoted(v) == <<Quote>> \o v \o <<Quote>>

\* "backend", value
PairText(backend, value) == Quoted(backend) \o Text(<<",", " ">>) \o value

PairSeparator == Text(<<"}", ",", " ", "{">>)

\* all texts over the characters of A of length 0..n
Texts(A, n) == UNION {[1..m -> A] : m \in 0..n}

RECURSIVE JoinWith(_, _)
\* sep.join(parts)
JoinWith(parts, sep) ==
    IF Len(parts) = 0 THEN <<>>
    ELSE IF Len(parts) = 1 THEN parts[1]
    ELSE parts[1] \o sep \o JoinWith(Tail(parts), sep)

MaxPieces == 3

\* the pieces a Document is made of: the statements of the end-to-end
\* scenario, pieces that are no tensor statement (one opens with U+200B,
\* which strip() keeps: it is no white space), a statement with runtimes and
\* an operation spelled with U+00E9 between a vertical tab (11) and a
\* no-break space (160), which strip() removes, and a statement whose name
\* is a closing tag of the console markup
PiecePool ==
    << TensorPrefix
         \o Text(<<"_", "0", " ", "=", " ", "f", "o", "o", "(", ")", "\n",
                   " ", " ">>)
         \o NameAnnotation(Text(<<"o", "p", "1">>))
         \o Text(<<"\n", " ", " ">>)
         \o SelectedBackendAnnotation(KeyAne) \o <<LineFeed>>,
       <<LineFeed>> \o TensorPrefix
         \o Text(<<"_", "1", " ", "=", " ", "b", "a", "r", "(", ")", "\n",
                   " ">>)
         \o NameAnnotation(Text(<<"o", "p", "2">>)),
       Text(<<"n", "o", "t", "_">>) \o TensorPrefix
         \o Text(<<"_", "s", "t", "m", "t">>),
       <<>>,
       <<8203>> \o TensorPrefix
         \o Text(<<" ", "=", " ", "b", "a", "z", "(", ")">>),
       <<11>> \o TensorPrefix
         \o Text(<<" ", "y", " ", "=", " ", "c", "a", "f">>) \o <<233>>
         \o Text(<<"(", "x", ")", "[">>)
         \o EstimatedRuntimeAnnotation(
              PairText(KeyClassicCpu,
                       Text(<<"0", ".", "0", "0", "2", "1", "5">>))
              \o PairSeparator \o PairText(KeyAne, Text(<<"0", ".", "5">>)))
         \o Text(<<"]">>) \o <<160>>,
       Text(<<"\t">>) \o TensorPrefix
         \o Text(<<" ", "z", " ", "=", " ", "f", "(", "x", ")", " ">>)
         \o NameAnnotation(Text(<<"[", "/", "x", "]">>)) \o Text(<<" ">>) >>

Documents ==
    {JoinWith([j \in 1..m |-> PiecePool[f[j]]], <<Semicolon>>) :
        f \in [1..MaxPieces -> 1..Len(PiecePool)], m \in 0..MaxPieces}

\* tensor y = f(x)[ ... ]: a statement that carries the annotation a
StatementWith(a) ==
    TensorPrefix \o Text(<<" ", "y", " ", "=", " ", "f", "(", "x", ")", "[">>)
    \o a \o Text(<<"]">>)

MaxPairs == 2

RuntimeBackends == {KeyClassicCpu, KeyMpsGraph, KeyAne}

\* runtimes as the format writes them (two of them halfway between two
\* numbers of four decimals), 0.0021 written in the Arabic-Indic digits
\* U+0660..U+0669, and two texts the pattern \d+\.\d+ rejects
RuntimeValues ==
    {Text(<<"0", ".", "0", "0", "2", "1">>),
     Text(<<"0", ".", "0", "0", "0", "9">>),
     Text(<<"0", ".", "0", "0", "0", "1", "5">>),
     Text(<<"0", ".", "0", "3", "1", "2", "5">>),
     Text(<<"0", ".", "0", "0", "0", "9", "6">>),
     <<1632, FullStop, 1632, 1632, 1634, 1633>>,
     Text(<<"1">>),
     Text(<<"1", "e", "-", "0", "5">>)}

RuntimePairTexts ==
    {PairText(b, v) : b \in RuntimeBackends, v \in RuntimeValues}

\* statements with an EstimatedRuntime annotation of 0..MaxPairs pairs
RuntimeDocuments ==
    {StatementWith(
        IF m = 0
        THEN Slice(PatEstimatedRuntime, 1, Len(PatEstimatedRuntime))
             \o Text(<<"}", ")">>)
        ELSE EstimatedRuntimeAnnotation(
                JoinWith([j \in 1..m |-> f[j]], PairSeparator))) :
        f \in [1..MaxPairs -> RuntimePairTexts], m \in 0..MaxPairs}

\* every field of a statement in three forms: absent, well-formed, and
\* opened but never closed (or closed on another line); the operation has a
\* second well-formed form, spelled with U+00E9
OperationForms ==
    <<<<>>,
      Text(<<" ", "=", " ", "c", "o", "n", "v", "(", "x", ")">>),
      Text(<<" ", "=", " ", "(", "x", ")">>),
      Text(<<" ", "=", " ", "c", "a", "f">>) \o <<233>>
        \o Text(<<"(", "x", ")">>)>>

RuntimeForms ==
    <<<<>>,
      Text(<<" ">>)
        \o EstimatedRuntimeAnnotation(
              PairText(KeyAne, Text(<<"0", ".", "5">>))),
      Text(<<" ">>) \o PatEstimatedRuntime
        \o PairText(KeyAne, Text(<<"0", ".", "5">>)) \o Text(<<"}", "}">>)>>

SelectedBackendForms ==
    <<<<>>,
      Text(<<" ">>) \o SelectedBackendAnnotation(KeyBnns),
      Text(<<" ">>) \o PatSelectedBackend \o KeyBnns \o <<LineFeed>>
        \o PatCloseString>>

NameForms ==
    <<<<>>,
      Text(<<" ">>) \o NameAnnotation(Text(<<"o", "p", "1">>)),
      Text(<<" ">>) \o PatName \o Text(<<"o", "p", "1", "\"">>)>>

MessageForms ==
    <<<<>>,
      Text(<<" ">>) \o ValidationMessageAnnotation(
                          PairText(KeyAne, Quoted(Text(<<"b", "a", "d">>)))),
      Text(<<" ">>) \o PatValidationMessage
        \o PairText(KeyAne, Quoted(Text(<<"b", "a", "d">>)))
        \o Text(<<"}", ")">>)>>

\* statements with every combination of the forms, the operation assignment
\* written before the annotations or after them
FieldDocuments ==
    {TensorPrefix \o Text(<<"<", "f", "p", "1", "6", ">", " ", "y">>)
       \o (IF first THEN OperationForms[o] ELSE <<>>)
       \o RuntimeForms[f[1]] \o SelectedBackendForms[f[2]] \o NameForms[f[3]]
       \o MessageForms[f[4]]
       \o (IF first THEN <<>> ELSE OperationForms[o]) :
        o \in 1..Len(OperationForms), f \in [1..4 -> 1..3],
        first \in BOOLEAN}

MaxValueLen == 2

ValueChars == {Ord("a"), Quote, Ord(")")}

\* values the console reads as markup: a closing tag that closes nothing, an
\* opening tag, a pair of tags, and a closing tag behind a pair
MarkupTexts ==
    {Text(<<"[", "/", "a", "]">>), Text(<<"[", "a", "]">>),
     Text(<<"[", "a", "]", "m", "[", "/", "a", "]">>),
     Text(<<"[", "a", "]", "[", "/", "]", "[", "/", "]">>)}

\* statements with a SelectedBackend annotation of any value of at most
\* MaxValueLen characters or a markup value, last in the statement or
\* followed by a name annotation
BackendDocuments ==
    {StatementWith(SelectedBackendAnnotation(v) \o rest) :
        v \in Texts(ValueChars, MaxValueLen) \cup MarkupTexts,
        rest \in {<<>>, Text(<<",", " ", "x">>),
                   Text(<<",", " ">>)
                     \o NameAnnotation(Text(<<"o", "p", "1">>))}}

MaxMessageLen == 3

\* 8232 is the line separator U+2028, which is no line feed
MessageChars ==
    {Ord("a"), Backslash, Quote, Ord("}"), Ord(")"), LineFeed, 8232}

MessageBackends == {KeyAne, KeyBnns}

\* an empty message, a plain one and one with escaped quotes
FewMessages == {<<>>, Text(<<"m">>), Text(<<"a", "\\", "\"", "b", "\\", "\"">>)}

MessagePairTexts ==
    {PairText(b, Quoted(m)) : b \in MessageBackends, m \in FewMessages}

\* statements with a ValidationMessage annotation: one pair with any message
\* of at most MaxMessageLen characters or a markup message, or 2..MaxPairs
\* pairs
MessageDocuments ==
    {StatementWith(ValidationMessageAnnotation(PairText(KeyAne, Quoted(m)))) :
        m \in Texts(MessageChars, MaxMessageLen) \cup MarkupTexts}
    \cup
    {StatementWith(ValidationMessageAnnotation(
                      JoinWith([j \in 1..m |-> f[j]], PairSeparator))) :
        f \in [1..MaxPairs -> MessagePairTexts], m \in 2..MaxPairs}

----------------------------------------------------------------------------
(* parse_mil_file as a state machine.                                      *)

VARIABLES
    content,            \* the text read from the file
    pc,                 \* where parse_mil_file stands
    tensor_operations,  \* the statements kept by the splitter
    index,              \* the number of statements the for loop has taken
    record,             \* operation, runtimes, selected_backend, name,
                        \* validation_messages as last assigned in the loop
    rows                \* the rows added to the table

vars == <<content, pc, tensor_operations, index, record, rows>>

\* the loop variables before the first iteration
Unbound ==
    [operation |-> <<>>, runtimes |-> <<>>, selected_backend |-> <<>>,
     name |-> <<>>, validation_messages |-> <<>>]

InitOn(documents) ==
    /\ content \in documents
    /\ pc = "split"
    /\ tensor_operations = <<>>
    /\ index = 0
    /\ record = Unbound
    /\ rows = <<>>

Init == InitOn(Documents)

\* lines 96-107: split the content, build the empty table
SplitStatements ==
    /\ pc = "split"
    /\ tensor_operations' = TensorOperations(content)
    /\ pc' = "loop"
    /\ UNCHANGED <<content, index, record, rows>>

\* lines 109-130: one iteration of the for loop (the debug echo of line 111
\* prints the statement and changes nothing)
AddRow ==
    /\ pc = "loop"
    /\ index < Len(tensor_operations)
    /\ index' = index + 1
    /\ record' = extract_single(tensor_operations[index + 1])
    /\ rows' = Append(rows, TableRow(record'))
    /\ UNCHANGED <<content, pc, tensor_operations>>

\* lines 132-138: the loop is over, the table is printed; the print raises
\* MarkupError when a cell does not render, and parse_mil_file ends there
PrintTable ==
    /\ pc = "loop"
    /\ index = Len(tensor_operations)
    /\ pc' \in PrintOutcomes(rows)
    /\ UNCHANGED <<content, tensor_operations, index, record, rows>>

Next == SplitStatements \/ AddRow \/ PrintTable

Spec == Init /\ [][Next]_vars

SpecRuntimes == InitOn(RuntimeDocuments) /\ [][Next]_vars

SpecFields == InitOn(FieldDocuments) /\ [][Next]_vars

SpecBackend == InitOn(BackendDocuments) /\ [][Next]_vars

SpecMessages == InitOn(MessageDocuments) /\ [][Next]_vars

TypeOK ==
    /\ pc \in {"split", "loop", "done", "raised"}
    /\ index \in 0..Len(tensor_operations)
    /\ Len(rows) = index

----------------------------------------------------------------------------
(* C1: the splitter.                                                       *)

\* a piece opens after position 0 and after every ";"
Cuts(s) == {0} \cup {p \in 1..Len(s) : s[p] = Semicolon}

PieceEnd(s, a) ==
    Min({p \in (a + 1)..Len(s) : s[p] = Semicolon} \cup {Len(s) + 1})

\* the positions of the piece after cut a that hold no white space
Ink(s, a) == {p \in (a + 1)..(PieceEnd(s, a) - 1) : ~IsSpace(s[p])}

IsKept(s, a) ==
    LET ink == Ink(s, a)
    IN  ink # {} /\ MatchAt(s, Min(ink), TensorPrefix)

KeptCuts(s) == {a \in Cuts(s) : IsKept(s, a)}

\* the trimmed text of the j-th kept piece, in document order
KeptStatement(s, j) ==
    LET kept == KeptCuts(s)
        a == CHOOSE c \in kept : Cardinality({x \in kept : x <= c}) = j
        ink == Ink(s, a)
    IN  Slice(s, Min(ink), Max(ink) + 1)

\* C1: once the content is split, the statements are the trimmed
\* ";"-separated pieces that start with "tensor", in document order; every row
\* added so far is the row of the record extracted from the piece of the same
\* rank, and when the table is printed there is one row per kept piece (none
\* for a Document without kept piece); the print may raise MarkupError, after
\* all rows were added, and never does for a Document without kept piece.
C1_RecordsFollowKeptPieces ==
    pc # "split" =>
        /\ Len(tensor_operations) = Cardinality(KeptCuts(content))
        /\ \A j \in 1..Len(tensor_operations) :
              tensor_operations[j] = KeptStatement(content, j)
        /\ \A j \in 1..Len(rows) :
              rows[j] = TableRow(extract_single(KeptStatement(content, j)))
        /\ index > 0 => record = extract_single(KeptStatement(content, index))
        /\ pc \in {"done", "raised"}
              => Len(rows) = Cardinality(KeptCuts(content))
        /\ (pc # "loop" /\ KeptCuts(content) = {}) => pc = "done"

\* a printed table of two different rows from a Document of three pieces
C1_Witness ==
    /\ pc = "done"
    /\ Cardinality(Cuts(content)) = 3
    /\ Len(rows) = 2
    /\ rows[1] # rows[2]

----------------------------------------------------------------------------
(* C4, C6, C8: the runtimes.                                               *)

\* the statement the loop has just taken
Current == tensor_operations[index]

Chars(s) == {s[j] : j \in 1..Len(s)}

\* the end of a text digits.digits that starts at a, 0 if there is none
WrittenNumberEnd(s, a) ==
    LET d1 == RunLen(s, a, FALSE)
        d2 == RunLen(s, a + d1 + 1, FALSE)
    IN  IF d1 >= 1 /\ MatchAt(s, a + d1, <<FullStop>>) /\ d2 >= 1
        THEN a + d1 + 1 + d2 ELSE 0

RECURSIVE WrittenPairs(_, _)
\* The pairs of a well-formed dictionary body read from position p, which
\* follows "{{": "<identifier>", <digits>.<digits> then either "}})" or "}, {"
\* and a further pair.  ok is FALSE when the text departs from that.
WrittenPairs(s, p) ==
    LET b == RunLen(s, p + 1, TRUE)
        v == p + b + 4
        e == WrittenNumberEnd(s, v)
        pair == <<Slice(s, p + 1, p + 1 + b), Slice(s, v, e)>>
        more == WrittenPairs(s, e + 4)
    IN  IF ~(/\ MatchAt(s, p, <<Quote>>)
             /\ b >= 1
             /\ MatchAt(s, p + 1 + b, PatRuntimeSep)
             /\ e # 0)
        THEN [ok |-> FALSE, pairs |-> <<>>]
        ELSE IF MatchAt(s, e, PatCloseDict)
        THEN [ok |-> TRUE, pairs |-> <<pair>>]
        ELSE IF MatchAt(s, e, PairSeparator) /\ more.ok
        THEN [ok |-> TRUE, pairs |-> <<pair>> \o more.pairs]
        ELSE [ok |-> FALSE, pairs |-> <<>>]

\* the pairs of the EstimatedRuntime annotation of s, when s has one and all
\* its pairs are well-formed
WrittenRuntimes(s) ==
    LET At == {p \in 1..Len(s) : MatchAt(s, p, PatEstimatedRuntime)}
    IN  IF At = {} THEN [ok |-> FALSE, pairs |-> <<>>]
        ELSE WrittenPairs(s, Min(At) + Len(PatEstimatedRuntime))

\* the float x is the number written as text (digits.digits)
SameNumber(x, text) ==
    LET dot == CHOOSE j \in 1..Len(text) : text[j] = FullStop
        frac == Len(text) - dot
    IN  x[1] * Pow10(frac)
          = ToInt(Slice(text, 1, dot) \o Slice(text, dot + 1, Len(text) + 1))
            * Pow10(x[2])

\* C4: when the EstimatedRuntime annotation of the statement has only
\* well-formed pairs, the keys of runtimes are exactly the listed backends,
\* one item each, and the value of a key is the number written in a pair of
\* that backend.
C4_RuntimesOfWellFormedPairs ==
    (index > 0 /\ WrittenRuntimes(Current).ok) =>
        LET written == WrittenRuntimes(Current).pairs
            runtimes == record.runtimes
        IN  /\ DictKeys(runtimes) = {written[i][1] : i \in 1..Len(written)}
            /\ Cardinality(DictKeys(runtimes)) = Len(runtimes)
            /\ \A j \in 1..Len(runtimes) :
                  \E i \in 1..Len(written) :
                     /\ written[i][1] = runtimes[j][1]
                     /\ SameNumber(runtimes[j][2], written[i][2])
            /\ \A i \in 1..Len(written) :
                  (\A h \in 1..Len(written) :
                      written[h][1] = written[i][1] => h = i)
                  => SameNumber(DictGet(runtimes, written[i][1], NA),
                                written[i][2])

\* the pairs (classic_cpu, 0.0021) and (mps_graph, 0.0009) have been extracted
C4_Witness ==
    /\ index > 0
    /\ WrittenRuntimes(Current).ok
    /\ record.runtimes
         = <<<<KeyClassicCpu, <<21, 4>>>>, <<KeyMpsGraph, <<9, 4>>>>>>

\* the number a runtime cell shows, in units of 1e-4; -1 if the cell is not
\* digits.digits with at most four decimals
ShownUnits(cell) ==
    LET e == WrittenNumberEnd(cell, 1)
        dot == RunLen(cell, 1, FALSE) + 1
        frac == Len(cell) - dot
    IN  IF e # Len(cell) + 1 \/ frac > 4 THEN -1
        ELSE ToInt(Slice(cell, 1, dot) \o Slice(cell, dot + 1, Len(cell) + 1))
             * Pow10(4 - frac)

\* cell shows the float x rounded to four decimals: a number of at most four
\* decimals that is no further from x than half of 1e-4
ShowsRounded(cell, x) ==
    LET u == ShownUnits(cell)
        n == x[1]
        k == x[2]
    IN  /\ u >= 0
        /\ IF k <= 4 THEN u = n * Pow10(4 - k)
           ELSE /\ 2 * (u * Pow10(k - 4) - n) <= Pow10(k - 4)
                /\ 2 * (n - u * Pow10(k - 4)) <= Pow10(k - 4)

ColumnFollowsKey(cell, key) ==
    /\ cell = NA <=> key \notin DictKeys(record.runtimes)
    /\ key \in DictKeys(record.runtimes)
         => ShowsRounded(cell, DictGet(record.runtimes, key, NA))

\* C6: in the row of the record just extracted, the CPU, GPU and ANE cells
\* follow the keys classic_cpu, mps_graph and ane of its runtimes: "N/A"
\* exactly when the key is absent, else the value rounded to four decimals.
C6_RuntimeColumns ==
    index > 0 =>
        /\ ColumnFollowsKey(rows[index].cpu_runtime, KeyClassicCpu)
        /\ ColumnFollowsKey(rows[index].gpu_runtime, KeyMpsGraph)
        /\ ColumnFollowsKey(rows[index].ane_runtime, KeyAne)

\* a row with a rounded CPU runtime (0.00015 has five decimals), a GPU
\* runtime and no ANE runtime
C6_Witness ==
    /\ index > 0
    /\ DictGet(record.runtimes, KeyClassicCpu, NA) = <<15, 5>>
    /\ rows[index].cpu_runtime \in {Text(<<"0", ".", "0", "0", "0", "1">>),
                                    Text(<<"0", ".", "0", "0", "0", "2">>)}
    /\ rows[index].gpu_runtime # NA
    /\ rows[index].ane_runtime = NA

\* C8: every key of runtimes is a backend identifier written, quoted, in the
\* statement: word characters only, so no quote and no text of two pairs.
C8_KeysAreBackendIdentifiers ==
    index > 0 =>
        \A key \in DictKeys(record.runtimes) :
            /\ \A c \in Chars(key) : IsWord(c)
            /\ \E p \in 1..Len(Current) : MatchAt(Current, p, Quoted(key))

----------------------------------------------------------------------------
(* C2, C10: the defaults and the operation.                                *)

\* a word of n characters stands in s at position a and "(" follows it
WordBeforeParen(s, a, n) ==
    /\ a + n <= Len(s)
    /\ \A j \in a..(a + n - 1) : IsWord(s[j])
    /\ s[a + n] = LeftParen

\* the positions of the texts "= <word>(" of s
OperationSites(s) ==
    {p \in 1..Len(s) :
        /\ MatchAt(s, p, Text(<<"=", " ">>))
        /\ \E n \in 1..Len(s) : WordBeforeParen(s, p + 2, n)}

\* the word of the text "= <word>(" at position p
WordAt(s, p) ==
    Slice(s, p + 2,
          p + 2 + CHOOSE n \in 1..Len(s) : WordBeforeParen(s, p + 2, n))

\* s has open, then one character or more of the same line, then close
HasEnclosed(s, open, close) ==
    \E p \in 1..Len(s) :
        /\ MatchAt(s, p, open)
        /\ \E e \in (p + Len(open) + 1)..Len(s) :
              /\ MatchAt(s, e, close)
              /\ \A j \in (p + Len(open))..(e - 1) : s[j] # LineFeed

\* C2: extract_single yields one record of five fields for every statement,
\* and a field whose pattern matches nowhere in the statement holds its
\* default, whatever the other fields hold; a statement without the text
\* SelectedBackend = string(" has selected_backend = "Not found".
C2_DefaultsOnNoMatch ==
    index > 0 =>
        /\ DOMAIN record = {"operation", "runtimes", "selected_backend",
                            "name", "validation_messages"}
        /\ OperationSites(Current) = {} => record.operation = NotFound
        /\ ~HasEnclosed(Current, PatEstimatedRuntime, PatCloseDict)
              => record.runtimes = <<>>
        /\ ~HasEnclosed(Current, PatSelectedBackend, PatCloseString)
              => record.selected_backend = NotFound
        /\ ~HasEnclosed(Current, PatName, PatCloseString)
              => record.name = NotFound
        /\ ~HasEnclosed(Current, PatValidationMessage, PatCloseDict)
              => record.validation_messages = <<>>
        /\ (\A p \in 1..Len(Current) : ~MatchAt(Current, p, PatSelectedBackend))
              => record.selected_backend = NotFound

\* a record whose selected_backend and validation_messages are defaults, for
\* want of a match, while its operation, runtimes and name were extracted
C2_Witness ==
    /\ index > 0
    /\ ~HasEnclosed(Current, PatSelectedBackend, PatCloseString)
    /\ \E p \in 1..Len(Current) : MatchAt(Current, p, PatSelectedBackend)
    /\ record.selected_backend = NotFound
    /\ record.validation_messages = <<>>
    /\ record.operation = Text(<<"c", "o", "n", "v">>)
    /\ record.runtimes # <<>>
    /\ record.name = Text(<<"o", "p", "1">>)

\* the texts "= <word>(" that open a name or a SelectedBackend annotation
AnnotationSites(s) ==
    {p \in OperationSites(s) :
        \/ MatchAt(s, p - 5, PatName)
        \/ MatchAt(s, p - 16, PatSelectedBackend)}

\* C10, as claimed: operation is the word of the first "= <word>(" that is no
\* annotation, and "Not found" when every such text belongs to a name or a
\* SelectedBackend annotation.
C10_OperationNeverFromAnnotation ==
    index > 0 =>
        LET Own == OperationSites(Current) \ AnnotationSites(Current)
        IN  record.operation =
                IF Own = {} THEN NotFound ELSE WordAt(Current, Min(Own))

\* C10, amended: operation is the word of the leftmost "= <word>(" of the
\* statement, annotation or not, and "Not found" only when there is none.
C10_OperationIsLeftmostSite ==
    index > 0 =>
        record.operation =
            IF OperationSites(Current) = {} THEN NotFound
            ELSE WordAt(Current, Min(OperationSites(Current)))

\* the operation was taken from an annotation that precedes the assignment
C10_Witness ==
    /\ index > 0
    /\ OperationSites(Current) \ AnnotationSites(Current) # {}
    /\ Min(OperationSites(Current)) \in AnnotationSites(Current)
    /\ record.operation = Text(<<"s", "t", "r", "i", "n", "g">>)

----------------------------------------------------------------------------
(* C5: the selected backend.                                               *)

\* C5, as claimed: selected_backend is the text between the first
\* SelectedBackend = string(" and the first ") that follows it, whatever that
\* text is, the empty text included.
C5_SelectedBackendIsValue ==
    LET At == {p \in 1..Len(Current) : MatchAt(Current, p, PatSelectedBackend)}
        g == Min(At) + Len(PatSelectedBackend)
        Closes == {e \in g..Len(Current) : MatchAt(Current, e, PatCloseString)}
    IN  (index > 0 /\ At # {} /\ Closes # {}) =>
            record.selected_backend = Slice(Current, g, Min(Closes))

----------------------------------------------------------------------------
(* C3, C7, C9: the validation messages.                                    *)

\* tensor y = f(x)[ValidationMessage = dict<string, string>({{"ane", "
SinglePairOpen ==
    Slice(StatementWith(PatValidationMessage), 1,
          Len(StatementWith(PatValidationMessage)))
    \o Quoted(KeyAne) \o Text(<<",", " ", "\"">>)

\* "}})]
SinglePairClose == <<Quote>> \o PatCloseDict \o Text(<<"]">>)

\* the statement holds the single pair "ane", "<message>"
HoldsSinglePair(s) ==
    /\ Len(s) >= Len(SinglePairOpen) + Len(SinglePairClose)
    /\ MatchAt(s, 1, SinglePairOpen)
    /\ MatchAt(s, Len(s) - Len(SinglePairClose) + 1, SinglePairClose)

SingleMessage(s) ==
    Slice(s, Len(SinglePairOpen) + 1, Len(s) - Len(SinglePairClose) + 1)

RECURSIVE Unescaped(_)
\* m with every \" turned into "
Unescaped(m) ==
    IF Len(m) = 0 THEN <<>>
    ELSE IF Len(m) >= 2 /\ m[1] = Backslash /\ m[2] = Quote
         THEN <<Quote>> \o Unescaped(Tail(Tail(m)))
         ELSE <<m[1]>> \o Unescaped(Tail(m))

Contains(s, part) == \E p \in 1..Len(s) : MatchAt(s, p, part)

\* C3, as claimed: whatever the non-empty message of a single pair is, the
\* value of its backend is the message with \" turned into ", then a line feed.
C3_SingleMessageUnescaped ==
    (index > 0 /\ HoldsSinglePair(Current) /\ SingleMessage(Current) # <<>>) =>
        /\ DictKeys(record.validation_messages) = {KeyAne}
        /\ DictGet(record.validation_messages, KeyAne, NA)
             = Unescaped(SingleMessage(Current)) \o <<LineFeed>>

\* the message lies on one line and does not hold the text that closes the
\* dictionary
OneLineInsideDict(m) == LineFeed \notin Chars(m) /\ ~Contains(m, PatCloseDict)

\* C3, amended: the same for every non-empty message that has no line feed
\* and does not contain }}).
C3_SingleMessageUnescapedOnOneLine ==
    (/\ index > 0
     /\ HoldsSinglePair(Current)
     /\ SingleMessage(Current) # <<>>
     /\ OneLineInsideDict(SingleMessage(Current))) =>
        /\ DictKeys(record.validation_messages) = {KeyAne}
        /\ DictGet(record.validation_messages, KeyAne, NA)
             = Unescaped(SingleMessage(Current)) \o <<LineFeed>>

\* the message reason \"a\" of one pair was extracted as reason "a" + line feed
C3_Witness ==
    /\ index > 0
    /\ HoldsSinglePair(Current)
    /\ SingleMessage(Current) = Text(<<"\\", "\"", "a">>)
    /\ record.validation_messages = <<<<KeyAne, Text(<<"\"", "a", "\n">>)>>>>

\* the first quote of s at or after a that no backslash precedes, 0 if none
ClosingQuote(s, a) ==
    LET Q == {q \in a..Len(s) : s[q] = Quote /\ (q = a \/ s[q - 1] # Backslash)}
    IN  IF Q = {} THEN 0 ELSE Min(Q)

RECURSIVE WrittenMessagePairs(_, _)
\* The pairs of a dictionary body read from position p, which follows "{{":
\* "<identifier>", "<message>" where the message ends at its closing quote,
\* then either "}})" or "}, {" and a further pair.
WrittenMessagePairs(s, p) ==
    LET b == RunLen(s, p + 1, TRUE)
        m == p + b + 5
        q == ClosingQuote(s, m)
        pair == <<Slice(s, p + 1, p + 1 + b), Slice(s, m, q)>>
        more == WrittenMessagePairs(s, q + 5)
    IN  IF ~(/\ MatchAt(s, p, <<Quote>>)
             /\ b >= 1
             /\ MatchAt(s, p + 1 + b, PatMessageSep)
             /\ q # 0)
        THEN [ok |-> FALSE, pairs |-> <<>>]
        ELSE IF MatchAt(s, q + 1, PatCloseDict)
        THEN [ok |-> TRUE, pairs |-> <<pair>>]
        ELSE IF MatchAt(s, q + 1, PairSeparator) /\ more.ok
        THEN [ok |-> TRUE, pairs |-> <<pair>> \o more.pairs]
        ELSE [ok |-> FALSE, pairs |-> <<>>]

WrittenMessages(s) ==
    LET At == {p \in 1..Len(s) : MatchAt(s, p, PatValidationMessage)}
    IN  IF At = {} THEN [ok |-> FALSE, pairs |-> <<>>]
        ELSE WrittenMessagePairs(s, Min(At) + Len(PatValidationMessage))

\* the backend of pair i is the backend of no other pair
OnlyPairOfBackend(pairs, i) ==
    \A h \in 1..Len(pairs) : pairs[h][1] = pairs[i][1] => h = i

\* C7, as claimed: of two or more pairs with non-empty messages, each gives
\* validation_messages an item under its own backend whose message stops at
\* the quote that closes it.
C7_EachPairItsOwnMessage ==
    LET written == WrittenMessages(Current).pairs
    IN  (/\ index > 0
         /\ WrittenMessages(Current).ok
         /\ Len(written) >= 2
         /\ \A i \in 1..Len(written) : written[i][2] # <<>>) =>
            /\ DictKeys(record.validation_messages)
                 = {written[i][1] : i \in 1..Len(written)}
            /\ \A i \in 1..Len(written) :
                  OnlyPairOfBackend(written, i) =>
                     DictGet(record.validation_messages, written[i][1], NA)
                       = Unescaped(written[i][2]) \o <<LineFeed>>

\* C9, as claimed: a pair with an empty message gives validation_messages an
\* item with the empty text, no line feed; and every value is empty or ends
\* with a line feed.
C9_EmptyMessageStaysEmpty ==
    LET written == WrittenMessages(Current).pairs
        messages == record.validation_messages
    IN  index > 0 =>
           /\ WrittenMessages(Current).ok =>
                 \A i \in 1..Len(written) :
                    (written[i][2] = <<>> /\ OnlyPairOfBackend(written, i)) =>
                       DictGet(messages, written[i][1], NA) = <<>>
           /\ \A j \in 1..Len(messages) :
                 \/ messages[j][2] = <<>>
                 \/ messages[j][2][Len(messages[j][2])] = LineFeed
====
